---- MODULE Spec2Model ----
(***************************************************************************)
(* Model of psutil/arch/windows/process_info.c: handle acquisition, the    *)
(* PID liveness oracle, the process table enumeration and the metadata     *)
(* extractors.  Every OS call is one step whose outcome is drawn from the  *)
(* outcomes the OS can give in the current process-table state; the target *)
(* process may start, exit and be reaped between any two steps.            *)
(***************************************************************************)
EXTENDS Integers, Sequences, FiniteSets, TLC

VARIABLES
    \* build / run configuration, fixed for a behaviour
    PSUTIL_TESTING,     \* the PSUTIL_TESTING switch read by the assert helpers
    inspector,          \* "win64" (_WIN64 build), "x86" (32-bit OS), "wow64"
    extra,              \* number of other processes in the process table
    \* function-static variables of the program
    initialBufferSize,
    NtWow64QueryInformationProcess64, NtWow64ReadVirtualMemory64,
    \* the operating system
    pstate,             \* state of the target process object
    pexit,              \* its exit code once it has exited
    pwow,               \* it is a 32-bit process under the compatibility layer
    hstate,             \* OS state of the handle OpenProcess gave this call
    \* the call in progress
    op, pid, use_peb, dwDesiredAccess, pc,
    hProcess,           \* the local HANDLE variable
    lastError,          \* GetLastError()
    nOpen, nClose,      \* OpenProcess / CloseHandle calls issued in this call
    exitCode,           \* what GetExitCodeProcess stored, -1 before it
    iphr,               \* value returned by psutil_is_phandle_running
    site,               \* call site psutil_pid_in_pids returns to
    procArraySz, enumReturnSz, procArray,
    iter,               \* iterations of the psutil_get_pids loop so far
    lastEnum,           \* what the last EnumProcesses call wrote, and the
                        \* length of the process table at that moment
    found,              \* value psutil_pid_in_pids returned, 2 before it
    ret, err, werr,     \* return value, Python exception, its Windows code
    retFrom,            \* the step the call returned from
    hist,               \* what the target was during the whole call
    bitness, size, buffer, bufsz, cmdline_buffer,
    copyLen,            \* length of the final remote copy, -1 before it
    procParameters,     \* the parameters structure read, and the read used
    src, src64,         \* the two address variables of the final copy
    copyVia,            \* the read used for the final copy and its address
    info,               \* what VirtualQueryEx stored for the environment
    pdata, psize,       \* the output parameters
    stray,              \* CloseHandle or free was given an uninitialised value
    bufferSize,
    nQuery,             \* NtQuerySystemInformation calls of this call
    status,             \* NTSTATUS of the last information query of the call
    snap,               \* ids of the snapshot psutil_get_proc_info scanned
    process,            \* position of the record the scan stopped at, 0 = NULL
    prev                \* the previous extractor call, with what it returned

cfgVars    == <<PSUTIL_TESTING, inspector, extra>>
fnVars     == <<NtWow64QueryInformationProcess64, NtWow64ReadVirtualMemory64>>
osVars     == <<pstate, pexit, pwow>>
callVars   == <<op, pid, use_peb, dwDesiredAccess>>
hVars      == <<hProcess, hstate, nOpen, nClose>>
pidsVars   == <<site, procArraySz, enumReturnSz, procArray, iter, lastEnum,
                found>>
resVars    == <<ret, err, werr, retFrom>>
rdVars     == <<procParameters, src, src64, copyVia, info>>
gpdVars    == <<bitness, size, bufsz, copyLen, rdVars>>
outVars    == <<pdata, psize>>
gpiVars    == <<initialBufferSize, bufferSize, snap, process, nQuery>>
\* what no step of a call changes
envVars    == <<cfgVars, osVars, callVars, hist, prev>>
\* what only the extractors and psutil_get_proc_info change
extVars    == <<fnVars, gpdVars, outVars, gpiVars, buffer, cmdline_buffer,
                stray, status>>
dataVars   == <<extVars, exitCode>>
vars == <<envVars, hVars, pidsVars, resVars, dataVars, pc, lastError, iphr>>

----------------------------------------------------------------------------
\* Program constants

STILL_ACTIVE == 259
PidsPerChunk == 1024
SizeofDWORD == 4
InitialHint == 16384
HintCeiling == 131072

\* Bounds of the model
TargetPid == 4
MaxChunks == 2
SnapBytesPerProc == 64
LongCmdline == 8192
UnicodeStringBytes == 16

Pids == {0, TargetPid}
ExitCodes == {STILL_ACTIVE, 1}
OtherError == "ERROR_GEN_FAILURE"
AccessRights == {"PROCESS_QUERY_INFORMATION|PROCESS_VM_READ",
                 "PROCESS_QUERY_LIMITED_INFORMATION"}
\* sizes of the rest of the process table: empty, and just below each
\* multiple of the enumeration chunk
Extras == {0} \cup {k * PidsPerChunk - d : k \in 1..MaxChunks, d \in {1, 2}}
\* UNICODE_STRING.Length values found in the target's memory: a byte count,
\* even in a structure the OS wrote, any 16-bit value in one the target
\* rewrote
Lengths == {0, 6, 7}
\* command line lengths ProcessCommandLineInformation is asked for
CmdLengths == Lengths \cup {LongCmdline}
\* MEMORY_BASIC_INFORMATION.RegionSize values VirtualQueryEx gives for the
\* environment address, and the offsets of that address from BaseAddress
RegionBytes == 4096
RegionSizes == {RegionBytes}
SrcOffsets == {0, RegionBytes - 8}
\* the locals of psutil_get_process_data before they are written: no
\* parameters structure read, an address variable not assigned, no final
\* copy issued, no region queried
NoParams == [layout |-> "none", read |-> "none"]
NoAddress == [layout |-> "uninitialised", field |-> "uninitialised"]
NoCopy == [read |-> "none", from |-> NoAddress]
NoInfo == [RegionSize |-> -1, offset |-> -1]
\* values an uninitialised HANDLE or pointer can hold
Uninitialised == {"NULL", "garbage"}

Min(a, b) == IF a < b THEN a ELSE b

----------------------------------------------------------------------------
\* The operating system

\* the target is listed in the process table
InTable == pstate \in {"live", "exiting"}

\* pid 0 (System Idle Process) first, the other processes, the target last
TableLen == 1 + extra + (IF InTable THEN 1 ELSE 0)

NullArray == [n |-> -1, hasP |-> FALSE]
NoEnum == [n |-> -1, hasP |-> FALSE, len |-> -1]

\* EnumProcesses(buf, cb, &ret): writes the first cb/4 ids of the table
EnumProcesses(entries) ==
    [n |-> Min(TableLen, entries),
     hasP |-> InTable /\ TableLen <= entries]

\* OpenProcess(p) can succeed
CanOpen(p) == p # 0 /\ pstate # "absent"

\* codes OpenProcess(p) can fail with
OpenFailCodes(p) ==
    IF p = 0 \/ pstate = "absent" THEN {"ERROR_INVALID_PARAMETER"}
    ELSE {"ERROR_ACCESS_DENIED", OtherError}

\* exit code GetExitCodeProcess reports for the target
ExitCodeOf == IF pstate = "live" THEN STILL_ACTIVE ELSE pexit

\* bytes NtQuerySystemInformation(SystemProcessInformation) needs now
SnapshotBytes == TableLen * SnapBytesPerProc

\* ids of the records of the snapshot, in order (the other processes stand
\* as one record); the record of the last one has NextEntryOffset 0
OtherPid == 8
SnapshotPids ==
    <<0>> \o (IF extra > 0 THEN <<OtherPid>> ELSE <<>>)
          \o (IF InTable THEN <<TargetPid>> ELSE <<>>)

HistAfter(h, inTab, absent) ==
    CASE h = "live"   -> IF inTab THEN "live" ELSE "mixed"
      [] h = "absent" -> IF absent THEN "absent" ELSE "mixed"
      [] h = "gone"   -> IF inTab THEN "mixed" ELSE "gone"
      [] OTHER        -> h

EnvStep(st, code, wow) ==
    /\ pstate' = st /\ pexit' = code /\ pwow' = wow
    /\ hist' = IF op = "idle" \/ pid = 0 THEN hist
               ELSE HistAfter(hist, st \in {"live", "exiting"}, st = "absent")
    /\ UNCHANGED <<cfgVars, callVars, hVars, pidsVars, resVars, dataVars,
                   pc, lastError, iphr, prev>>

Spawn ==
    /\ pstate = "absent"
    /\ \E w \in (IF inspector = "x86" THEN {FALSE} ELSE BOOLEAN) :
          EnvStep("live", STILL_ACTIVE, w)

Exit ==
    /\ pstate = "live"
    /\ \E c \in ExitCodes : EnvStep("exiting", c, pwow)

Remove ==
    /\ pstate = "exiting"
    /\ EnvStep("zombie", pexit, pwow)

\* the process object goes once no handle refers to it
Reap ==
    /\ pstate = "zombie"
    /\ hstate # "open"
    /\ EnvStep("absent", STILL_ACTIVE, FALSE)

----------------------------------------------------------------------------
\* Calls

Return(r, e, w) ==
    /\ pc' = "done" /\ ret' = r /\ err' = e /\ werr' = w /\ retFrom' = pc

Goto(next) == pc' = next /\ UNCHANGED resVars

HistAtStart(p) ==
    IF p = 0 \/ InTable THEN "live"
    ELSE IF pstate = "absent" THEN "absent" ELSE "gone"

Begin(o, p, peb, acc, start) ==
    /\ op' = o /\ pid' = p /\ use_peb' = peb /\ dwDesiredAccess' = acc
    /\ pc' = start
    /\ hProcess' = "NULL" /\ hstate' = "none" /\ nOpen' = 0 /\ nClose' = 0
    /\ lastError' = "none" /\ iphr' = 2 /\ exitCode' = -1
    /\ site' = IF o = "get_pids" THEN "list" ELSE "none"
    /\ procArraySz' = 0 /\ enumReturnSz' = 0 /\ iter' = 0
    /\ procArray' = NullArray /\ lastEnum' = NoEnum /\ found' = 2
    /\ ret' = 0 /\ err' = "none" /\ werr' = "none" /\ retFrom' = "none"
    /\ hist' = HistAtStart(p)
    /\ bitness' = "none" /\ size' = 0 /\ buffer' = "NULL" /\ bufsz' = 0
    /\ cmdline_buffer' = "NULL" /\ copyLen' = -1
    /\ procParameters' = NoParams /\ src' = NoAddress
    /\ src64' = NoAddress /\ copyVia' = NoCopy /\ info' = NoInfo
    /\ pdata' = "untouched" /\ psize' = -1 /\ stray' = FALSE
    /\ bufferSize' = 0 /\ snap' = <<>> /\ process' = 0 /\ status' = "none"
    /\ nQuery' = 0
    /\ UNCHANGED <<cfgVars, osVars, fnVars, initialBufferSize>>

CallPids ==
    /\ op = "idle"
    /\ Begin("get_pids", 0, 0, "none", "get_pids")
    /\ UNCHANGED prev

CallInfo ==
    /\ op = "idle"
    /\ \E p \in Pids : Begin("get_proc_info", p, 0, "none", "gpi")
    /\ UNCHANGED prev

Call ==
    /\ op = "idle"
    /\ \/ \E p \in Pids : Begin("pid_is_running", p, 0, "none", "pir")
       \/ \E p \in Pids, a \in AccessRights :
             Begin("handle_from_pid", p, 0, a, "hfp")
       \/ \E p \in Pids, o \in {"get_cwd", "get_environ"} :
             Begin(o, p, 1, "PROCESS_QUERY_INFORMATION|PROCESS_VM_READ", "gpd")
       \/ \E p \in Pids :
             Begin("get_cmdline", p, 1,
                   "PROCESS_QUERY_INFORMATION|PROCESS_VM_READ", "gpd")
       \/ \E p \in Pids :
             Begin("get_cmdline", p, 0,
                   "PROCESS_QUERY_LIMITED_INFORMATION", "gcd")
       \/ CallInfo
    /\ UNCHANGED prev

Finish ==
    /\ pc = "done"
    /\ Begin("idle", 0, 0, "none", "idle")
    /\ UNCHANGED prev

\* CloseHandle(hProcess)
CloseHandle ==
    /\ hstate' = "closed" /\ nClose' = nClose + 1
    /\ UNCHANGED <<hProcess, nOpen>>

----------------------------------------------------------------------------
\* psutil_get_pids and psutil_pid_in_pids

\* psutil_pid_in_pids(pid), called from `s`
CallPidInPids(s) ==
    /\ pc' = "get_pids" /\ site' = s
    /\ procArraySz' = 0 /\ enumReturnSz' = 0 /\ iter' = 0
    /\ procArray' = NullArray
    /\ UNCHANGED <<lastEnum, found>>

\* variant: the array doubles on each retry
NextArraySz_double(sz) == IF sz = 0 THEN PidsPerChunk ELSE 2 * sz

\* procArraySz += 1024
NextArraySz(sz) == sz + PidsPerChunk

\* variant: the loop never retries
LoopAgain_never(enumRet, arraySz) == FALSE

\* the do-while condition of psutil_get_pids
LoopAgain(enumRet, arraySz) == enumRet = arraySz * SizeofDWORD

\* one iteration of the do-while loop of psutil_get_pids
get_pids_loop ==
    /\ pc = "get_pids"
    /\ LET sz == NextArraySz(procArraySz)
           w  == EnumProcesses(sz)
       IN  /\ procArraySz' = sz
           /\ iter' = iter + 1
           /\ \/ \* malloc fails
                 /\ procArray' = NullArray /\ err' = "MemoryError"
                 /\ werr' = "none" /\ pc' = "get_pids_ret"
                 /\ UNCHANGED <<enumReturnSz, lastEnum, lastError>>
              \/ \* EnumProcesses fails
                 /\ procArray' = NullArray /\ err' = "WindowsError"
                 /\ werr' = OtherError /\ lastError' = OtherError
                 /\ pc' = "get_pids_ret"
                 /\ UNCHANGED <<enumReturnSz, lastEnum>>
              \/ /\ procArray' = w
                 /\ enumReturnSz' = w.n * SizeofDWORD
                 /\ lastEnum' = IF site = "list"
                                THEN [n |-> w.n, hasP |-> w.hasP,
                                      len |-> TableLen]
                                ELSE lastEnum
                 /\ pc' = IF LoopAgain(w.n * SizeofDWORD, sz)
                          THEN "get_pids" ELSE "get_pids_ret"
                 /\ UNCHANGED <<err, werr, lastError>>
    /\ UNCHANGED <<envVars, hVars, dataVars, site, ret, retFrom, iphr, found>>

\* variant: the for loop stops one entry short of the end
Contains_short(arr, p) == IF p = 0 THEN arr.n >= 2 ELSE FALSE

\* the for loop of psutil_pid_in_pids over numberOfReturnedPIDs entries
Contains(arr, p) ==
    IF p = 0 THEN arr.n >= 1 ELSE p = TargetPid /\ arr.hasP

\* value of psutil_pid_in_pids once psutil_get_pids has returned
pid_in_pids ==
    IF procArray = NullArray THEN -1
    ELSE IF Contains(procArray, pid) THEN 1 ELSE 0

\* psutil_assert_pid_exists / psutil_assert_pid_not_exists, given the
\* value psutil_pid_in_pids returned under PSUTIL_TESTING
assert_pid_exists(r) == r # 0

\* variant: the assertion also fails when the enumeration failed
assert_pid_not_exists_strict(r) == r = 0

assert_pid_not_exists(r) == r # 1

\* psutil_get_pids returns to psutil_pid_in_pids, which returns to its caller
get_pids_return ==
    /\ pc = "get_pids_ret"
    /\ LET r == pid_in_pids IN
       \/ /\ site = "list"
          /\ IF procArray = NullArray
             THEN Return(-1, err, werr)
             ELSE Return(enumReturnSz \div SizeofDWORD, "none", "none")
          /\ UNCHANGED <<hVars, iphr>>
       \/ /\ site = "pir_invalid"
          /\ IF assert_pid_not_exists(r)
             THEN Return(0, err, werr)
             ELSE Return(-1, "AssertionError", "none")
          /\ UNCHANGED <<hVars, iphr>>
       \/ /\ site \in {"pir_denied", "pir_active", "pir_exit_denied"}
          /\ IF assert_pid_exists(r)
             THEN Return(1, err, werr)
             ELSE Return(-1, "AssertionError", "none")
          /\ UNCHANGED <<hVars, iphr>>
       \/ /\ site = "pir_exited"
          /\ Return(r, err, werr)
          /\ UNCHANGED <<hVars, iphr>>
       \/ /\ site = "iphr_invalid"
          /\ iphr' = IF assert_pid_not_exists(r) THEN 0 ELSE -2
          /\ err' = IF assert_pid_not_exists(r) THEN err ELSE "AssertionError"
          /\ pc' = "check_phandle"
          /\ UNCHANGED <<hVars, ret, werr, retFrom>>
       \/ /\ site = "iphr_active"
          /\ iphr' = IF assert_pid_exists(r) THEN 1 ELSE -2
          /\ err' = IF assert_pid_exists(r) THEN err ELSE "AssertionError"
          /\ pc' = "check_phandle"
          /\ UNCHANGED <<hVars, ret, werr, retFrom>>
       \/ /\ site = "iphr_exited"
          /\ IF r = 1
             THEN iphr' = 1 /\ UNCHANGED hVars
             ELSE iphr' = 0 /\ CloseHandle
          /\ pc' = "check_phandle"
          /\ UNCHANGED resVars
       \/ /\ site = "iphr_failed"
          /\ iphr' = IF assert_pid_not_exists(r) THEN -1 ELSE -2
          /\ err' = IF assert_pid_not_exists(r) THEN err ELSE "AssertionError"
          /\ pc' = "check_phandle"
          /\ UNCHANGED <<hVars, ret, werr, retFrom>>
    \* free(proclist) in psutil_pid_in_pids
    /\ IF site = "list"
       THEN UNCHANGED <<procArraySz, enumReturnSz, procArray, iter>>
       ELSE /\ procArraySz' = 0 /\ enumReturnSz' = 0 /\ iter' = 0
            /\ procArray' = NullArray
    /\ found' = IF site = "list" THEN found ELSE pid_in_pids
    /\ UNCHANGED <<envVars, dataVars, site, lastEnum, lastError>>

----------------------------------------------------------------------------
\* psutil_pid_is_running

\* variant: no special case for PID 0
pir_is_idle_never(p) == FALSE

\* the special case for PID 0 at the top of psutil_pid_is_running
pir_is_idle(p) == p = 0

\* variant: ERROR_ACCESS_DENIED from OpenProcess is raised like any other
\* error code
pir_OpenProcess_strict ==
    /\ pc = "pir"
    /\ \/ /\ pir_is_idle(pid)
          /\ Return(1, "none", "none")
          /\ UNCHANGED <<hVars, pidsVars, lastError>>
       \/ /\ ~pir_is_idle(pid) /\ CanOpen(pid)
          /\ hProcess' = "H" /\ hstate' = "open" /\ nOpen' = nOpen + 1
          /\ pc' = "pir_exitcode"
          /\ UNCHANGED <<nClose, pidsVars, resVars, lastError>>
       \/ /\ ~pir_is_idle(pid)
          /\ \E e \in OpenFailCodes(pid) :
                /\ lastError' = e /\ nOpen' = nOpen + 1
                /\ UNCHANGED <<hProcess, hstate, nClose>>
                /\ CASE e = "ERROR_INVALID_PARAMETER" ->
                          IF PSUTIL_TESTING
                          THEN CallPidInPids("pir_invalid") /\ UNCHANGED resVars
                          ELSE Return(0, "none", "none") /\ UNCHANGED pidsVars
                     [] OTHER ->
                          Return(-1, "WindowsError", e) /\ UNCHANGED pidsVars
    /\ UNCHANGED <<envVars, dataVars, iphr>>

\* psutil_pid_is_running up to the outcome of OpenProcess
pir_OpenProcess ==
    /\ pc = "pir"
    /\ \/ /\ pir_is_idle(pid)
          /\ Return(1, "none", "none")
          /\ UNCHANGED <<hVars, pidsVars, lastError>>
       \/ /\ ~pir_is_idle(pid) /\ CanOpen(pid)
          /\ hProcess' = "H" /\ hstate' = "open" /\ nOpen' = nOpen + 1
          /\ pc' = "pir_exitcode"
          /\ UNCHANGED <<nClose, pidsVars, resVars, lastError>>
       \/ /\ ~pir_is_idle(pid)
          /\ \E e \in OpenFailCodes(pid) :
                /\ lastError' = e /\ nOpen' = nOpen + 1
                /\ UNCHANGED <<hProcess, hstate, nClose>>
                /\ CASE e = "ERROR_INVALID_PARAMETER" ->
                          IF PSUTIL_TESTING
                          THEN CallPidInPids("pir_invalid") /\ UNCHANGED resVars
                          ELSE Return(0, "none", "none") /\ UNCHANGED pidsVars
                     [] e = "ERROR_ACCESS_DENIED" ->
                          IF PSUTIL_TESTING
                          THEN CallPidInPids("pir_denied") /\ UNCHANGED resVars
                          ELSE Return(1, "none", "none") /\ UNCHANGED pidsVars
                     [] OTHER ->
                          Return(-1, "WindowsError", e) /\ UNCHANGED pidsVars
    /\ UNCHANGED <<envVars, dataVars, iphr>>

\* variant: the table is consulted whatever PSUTIL_TESTING holds
pir_GetExitCodeProcess_always ==
    /\ pc = "pir_exitcode"
    /\ CloseHandle
    /\ \/ /\ UNCHANGED lastError
          /\ exitCode' = ExitCodeOf
          /\ IF ExitCodeOf = STILL_ACTIVE
             THEN CallPidInPids("pir_active") /\ UNCHANGED resVars
             ELSE CallPidInPids("pir_exited") /\ UNCHANGED resVars
       \/ \E e \in {"ERROR_ACCESS_DENIED", OtherError} :
             /\ lastError' = e
             /\ UNCHANGED exitCode
             /\ IF e = "ERROR_ACCESS_DENIED"
                THEN CallPidInPids("pir_exit_denied") /\ UNCHANGED resVars
                ELSE Return(-1, "WindowsError", e) /\ UNCHANGED pidsVars
    /\ UNCHANGED <<envVars, extVars, iphr>>

\* variant: an exit code other than STILL_ACTIVE is taken to mean the
\* process has gone, with no look into the table
pir_GetExitCodeProcess_exited ==
    /\ pc = "pir_exitcode"
    /\ CloseHandle
    /\ \/ /\ UNCHANGED lastError
          /\ exitCode' = ExitCodeOf
          /\ IF ExitCodeOf = STILL_ACTIVE
             THEN IF PSUTIL_TESTING
                  THEN CallPidInPids("pir_active") /\ UNCHANGED resVars
                  ELSE Return(1, "none", "none") /\ UNCHANGED pidsVars
             ELSE Return(0, "none", "none") /\ UNCHANGED pidsVars
       \/ \E e \in {"ERROR_ACCESS_DENIED", OtherError} :
             /\ lastError' = e
             /\ UNCHANGED exitCode
             /\ IF e = "ERROR_ACCESS_DENIED"
                THEN IF PSUTIL_TESTING
                     THEN CallPidInPids("pir_exit_denied") /\ UNCHANGED resVars
                     ELSE Return(1, "none", "none") /\ UNCHANGED pidsVars
                ELSE Return(-1, "WindowsError", e) /\ UNCHANGED pidsVars
    /\ UNCHANGED <<envVars, extVars, iphr>>

\* psutil_pid_is_running from GetExitCodeProcess on
pir_GetExitCodeProcess ==
    /\ pc = "pir_exitcode"
    /\ CloseHandle
    /\ \/ /\ UNCHANGED lastError
          /\ exitCode' = ExitCodeOf
          /\ IF ExitCodeOf = STILL_ACTIVE
             THEN IF PSUTIL_TESTING
                  THEN CallPidInPids("pir_active") /\ UNCHANGED resVars
                  ELSE Return(1, "none", "none") /\ UNCHANGED pidsVars
             ELSE CallPidInPids("pir_exited") /\ UNCHANGED resVars
       \/ \E e \in {"ERROR_ACCESS_DENIED", OtherError} :
             /\ lastError' = e
             /\ UNCHANGED exitCode
             /\ IF e = "ERROR_ACCESS_DENIED"
                THEN IF PSUTIL_TESTING
                     THEN CallPidInPids("pir_exit_denied") /\ UNCHANGED resVars
                     ELSE Return(1, "none", "none") /\ UNCHANGED pidsVars
                ELSE Return(-1, "WindowsError", e) /\ UNCHANGED pidsVars
    /\ UNCHANGED <<envVars, extVars, iphr>>

----------------------------------------------------------------------------
\* Handle acquisition

\* variant: no pid == 0 test
hfp_is_idle_never(p) == FALSE

\* the pid == 0 test at the top of psutil_handle_from_pid
hfp_is_idle(p) == p = 0

\* psutil_handle_from_pid up to the outcome of OpenProcess
handle_from_pid ==
    /\ pc = "hfp"
    /\ \/ /\ hfp_is_idle(pid)
          /\ err' = "AccessDenied" /\ werr' = "none"
          /\ pc' = "hfp_ret"
          /\ UNCHANGED <<hVars, lastError, ret, retFrom>>
       \/ /\ ~hfp_is_idle(pid) /\ CanOpen(pid)
          /\ hProcess' = "H" /\ hstate' = "open" /\ nOpen' = nOpen + 1
          /\ pc' = "iphr"
          /\ UNCHANGED <<nClose, lastError, resVars>>
       \/ /\ ~hfp_is_idle(pid)
          /\ \E e \in OpenFailCodes(pid) :
                /\ lastError' = e /\ nOpen' = nOpen + 1
                /\ pc' = "iphr"
                /\ UNCHANGED <<hProcess, hstate, nClose, resVars>>
    /\ UNCHANGED <<envVars, dataVars, pidsVars, iphr>>

\* psutil_is_phandle_running up to its first psutil_pid_in_pids call
is_phandle_running ==
    /\ pc = "iphr"
    /\ \/ /\ hProcess = "NULL"
          /\ IF lastError = "ERROR_INVALID_PARAMETER"
             THEN IF PSUTIL_TESTING
                  THEN CallPidInPids("iphr_invalid") /\ UNCHANGED iphr
                  ELSE iphr' = 0 /\ pc' = "check_phandle" /\ UNCHANGED pidsVars
             ELSE iphr' = -1 /\ pc' = "check_phandle" /\ UNCHANGED pidsVars
          /\ UNCHANGED <<hVars, lastError, exitCode>>
       \/ \* GetExitCodeProcess succeeds
          /\ hProcess # "NULL"
          /\ IF ExitCodeOf = STILL_ACTIVE
             THEN IF PSUTIL_TESTING
                  THEN CallPidInPids("iphr_active") /\ UNCHANGED iphr
                  ELSE iphr' = 1 /\ pc' = "check_phandle" /\ UNCHANGED pidsVars
             ELSE CallPidInPids("iphr_exited") /\ UNCHANGED iphr
          /\ exitCode' = ExitCodeOf
          /\ UNCHANGED <<hVars, lastError>>
       \/ \* GetExitCodeProcess fails
          /\ hProcess # "NULL"
          /\ \E e \in {"ERROR_ACCESS_DENIED", OtherError} : lastError' = e
          /\ CloseHandle
          /\ UNCHANGED exitCode
          /\ IF PSUTIL_TESTING
             THEN CallPidInPids("iphr_failed") /\ UNCHANGED iphr
             ELSE iphr' = -1 /\ pc' = "check_phandle" /\ UNCHANGED pidsVars
    /\ UNCHANGED <<envVars, extVars, resVars>>

\* variant: the handle is returned for every non-negative value
check_phandle_returns_lenient(r) ==
    CASE r >= 0 -> "hProcess"
      [] r = -1 -> "WindowsError"
      [] OTHER  -> "NULL"

\* variant: the 0 and -1 branches are exchanged
check_phandle_returns_swapped(r) ==
    CASE r = 1  -> "hProcess"
      [] r = 0  -> "WindowsError"
      [] r = -1 -> "NoSuchProcess"
      [] OTHER  -> "NULL"

\* what psutil_check_phandle returns for each value of
\* psutil_is_phandle_running
check_phandle_returns(r) ==
    CASE r = 1  -> "hProcess"
      [] r = 0  -> "NoSuchProcess"
      [] r = -1 -> "WindowsError"
      [] OTHER  -> "NULL"

\* psutil_check_phandle: the value psutil_handle_from_pid returns
check_phandle ==
    /\ pc = "check_phandle"
    /\ LET v == check_phandle_returns(iphr) IN
       CASE v = "hProcess"      -> UNCHANGED <<hProcess, err, werr>>
         [] v = "NoSuchProcess" -> /\ hProcess' = "NULL"
                                   /\ err' = "NoSuchProcess" /\ werr' = "none"
         [] v = "WindowsError"  -> /\ hProcess' = "NULL"
                                   /\ err' = "WindowsError"
                                   /\ werr' = lastError
         [] OTHER               -> /\ hProcess' = "NULL"
                                   /\ UNCHANGED <<err, werr>>
    /\ pc' = "hfp_ret"
    /\ UNCHANGED <<envVars, dataVars, pidsVars, hstate, nOpen, nClose, ret,
                   retFrom, lastError, iphr>>

\* psutil_handle_from_pid returns to the binding layer
open_handle_return ==
    /\ pc = "hfp_ret" /\ op = "handle_from_pid"
    /\ Return(IF hProcess = "NULL" THEN -1 ELSE 0, err, werr)
    /\ UNCHANGED <<envVars, dataVars, hVars, pidsVars, lastError, iphr>>

----------------------------------------------------------------------------
\* psutil_get_process_data

DataOps == {"get_cmdline", "get_cwd", "get_environ"}
UsesGPD ==
    op \in {"get_cwd", "get_environ"} \/ (op = "get_cmdline" /\ use_peb = 1)
kind == CASE op = "get_cmdline" -> "KIND_CMDLINE"
          [] op = "get_cwd"     -> "KIND_CWD"
          [] OTHER              -> "KIND_ENVIRON"

\* what no step of psutil_get_process_data changes
gpd_frame == <<envVars, pidsVars, lastError, iphr, gpiVars, cmdline_buffer,
               stray, status, exitCode>>

\* variant: the error label does not free the buffer
gpd_error_nofree(e, w) ==
    /\ Return(-1, e, w)
    /\ IF hProcess # "NULL" THEN CloseHandle ELSE UNCHANGED hVars
    /\ UNCHANGED buffer

\* the error label of psutil_get_process_data
gpd_error(e, w) ==
    /\ Return(-1, e, w)
    /\ IF hProcess # "NULL" THEN CloseHandle ELSE UNCHANGED hVars
    /\ buffer' = IF buffer = "alloc" THEN "freed" ELSE buffer

\* the call goes on at `next`
gpd_goto(next) == Goto(next) /\ UNCHANGED <<hVars, buffer>>

\* psutil_GetProcAddress("ntdll.dll", "NtQueryInformationProcess")
gpd_GetProcAddress ==
    /\ pc = "gpd"
    /\ \/ Return(-1, "WindowsError", OtherError)
       \/ Goto("hfp")
    /\ UNCHANGED <<gpd_frame, hVars, fnVars, gpdVars, outVars, buffer>>

\* hProcess = psutil_handle_from_pid(pid, access); if NULL return -1
gpd_handle ==
    /\ pc = "hfp_ret" /\ UsesGPD
    /\ IF hProcess = "NULL"
       THEN Return(-1, err, werr)
       ELSE Goto("gpd_bitness")
    /\ UNCHANGED <<gpd_frame, hVars, fnVars, gpdVars, outVars, buffer>>

\* the bitness case the #ifdef _WIN64 / IsWow64Process tests select
Bitness(insp, theyAreWow64) ==
    CASE insp = "win64" -> IF theyAreWow64 THEN "Wider" ELSE "Native"
      [] insp = "wow64" -> IF ~theyAreWow64 THEN "Narrower" ELSE "Native"
      [] OTHER          -> "Native"

\* NtQueryInformationProcess(ProcessWow64Information) or IsWow64Process x2
gpd_bitness ==
    /\ pc = "gpd_bitness"
    /\ \/ /\ gpd_error("WindowsError", OtherError)
          /\ UNCHANGED bitness
       \/ /\ bitness' = Bitness(inspector, pwow)
          /\ gpd_goto(CASE bitness' = "Wider"    -> "gpd_peb"
                        [] bitness' = "Narrower" -> "gpd_wow64fn"
                        [] OTHER                 -> "gpd_pbi")
    /\ UNCHANGED <<gpd_frame, fnVars, size, bufsz, copyLen, rdVars, outVars>>

\* variant: the second lookup stores a non-NULL value when it fails, so the
\* next call skips it
gpd_wow64fn_sticky ==
    /\ pc = "gpd_wow64fn"
    /\ \/ /\ NtWow64QueryInformationProcess64 = "NULL"
          /\ gpd_error("AccessDenied", "none")
          /\ UNCHANGED fnVars
       \/ /\ NtWow64ReadVirtualMemory64 = "NULL"
          /\ NtWow64QueryInformationProcess64' = "fn"
          /\ NtWow64ReadVirtualMemory64' = "fn"
          /\ gpd_error("AccessDenied", "none")
       \/ /\ NtWow64QueryInformationProcess64' = "fn"
          /\ NtWow64ReadVirtualMemory64' = "fn"
          /\ gpd_goto("gpd_pbi")
    /\ UNCHANGED <<gpd_frame, gpdVars, outVars>>

\* the two cached psutil_GetProcAddressFromLib lookups of the Narrower case
gpd_wow64fn ==
    /\ pc = "gpd_wow64fn"
    /\ \/ /\ NtWow64QueryInformationProcess64 = "NULL"
          /\ gpd_error("AccessDenied", "none")
          /\ UNCHANGED fnVars
       \/ /\ NtWow64ReadVirtualMemory64 = "NULL"
          /\ NtWow64QueryInformationProcess64' = "fn"
          /\ gpd_error("AccessDenied", "none")
          /\ UNCHANGED NtWow64ReadVirtualMemory64
       \/ /\ NtWow64QueryInformationProcess64' = "fn"
          /\ NtWow64ReadVirtualMemory64' = "fn"
          /\ gpd_goto("gpd_pbi")
    /\ UNCHANGED <<gpd_frame, gpdVars, outVars>>

\* a remote query or read that either fails with a Windows error or
\* lets the call go on at `next`
gpd_syscall(at, next) ==
    /\ pc = at
    /\ \/ gpd_error("WindowsError", OtherError)
       \/ gpd_goto(next)
    /\ UNCHANGED <<gpd_frame, fnVars, gpdVars, outVars>>

\* NtQueryInformationProcess / NtWow64QueryInformationProcess64
\* (ProcessBasicInformation)
gpd_basic_info == gpd_syscall("gpd_pbi", "gpd_peb")

\* read PEB
gpd_read_peb == gpd_syscall("gpd_peb", "gpd_params")

\* the parameters structure each bitness case declares
Layout(b) ==
    CASE b = "Wider"    -> "RTL_USER_PROCESS_PARAMETERS32"
      [] b = "Narrower" -> "RTL_USER_PROCESS_PARAMETERS64"
      [] OTHER          -> "RTL_USER_PROCESS_PARAMETERS_"

\* the read each bitness case uses for the PEB and the parameters
ParamsRead(b) ==
    IF b = "Narrower" THEN "NtWow64ReadVirtualMemory64"
    ELSE "ReadProcessMemory"

\* read process parameters
gpd_read_params ==
    /\ pc = "gpd_params"
    /\ \/ /\ gpd_error("WindowsError", OtherError)
          /\ UNCHANGED procParameters
       \/ /\ procParameters' = [layout |-> Layout(bitness),
                                 read |-> ParamsRead(bitness)]
          /\ gpd_goto("gpd_kind")
    /\ UNCHANGED <<gpd_frame, fnVars, bitness, size, bufsz, copyLen, src,
                   src64, copyVia, info, outVars>>

\* the field each case of the switch on kind takes its address from
Field(k) ==
    CASE k = "KIND_CMDLINE" -> "CommandLine"
      [] k = "KIND_CWD"     -> "CurrentDirectoryPath"
      [] OTHER              -> "env"

\* psutil_get_process_region_size(hProcess, src, &size)
get_process_region_size ==
    \/ /\ gpd_error("WindowsError", OtherError)
       /\ UNCHANGED <<size, info>>
    \/ /\ \E rs \in RegionSizes, off \in SrcOffsets :
             /\ info' = [RegionSize |-> rs, offset |-> off]
             /\ size' = rs - off
       /\ gpd_goto("gpd_calloc")

\* variant: the KIND_ENVIRON case is never refused
environ_refused_never(k, b) == FALSE

\* the KIND_ENVIRON case is refused for this bitness
environ_refused(k, b) == k = "KIND_ENVIRON" /\ b = "Narrower"

\* the switch on kind and the KIND_ENVIRON test that follows it
gpd_kind ==
    /\ pc = "gpd_kind"
    /\ LET a == [layout |-> procParameters.layout, field |-> Field(kind)]
       IN  IF bitness = "Narrower"
           THEN src64' = a /\ UNCHANGED src
           ELSE src' = a /\ UNCHANGED src64
    /\ \/ /\ kind # "KIND_ENVIRON"
          /\ \E len \in Lengths : size' = len
          /\ gpd_goto("gpd_calloc")
          /\ UNCHANGED info
       \/ /\ kind = "KIND_ENVIRON" /\ environ_refused(kind, bitness)
          /\ gpd_error("AccessDenied", "none")
          /\ UNCHANGED <<size, info>>
       \/ /\ kind = "KIND_ENVIRON" /\ ~environ_refused(kind, bitness)
          /\ get_process_region_size
    /\ UNCHANGED <<gpd_frame, fnVars, bitness, bufsz, copyLen, procParameters,
                   copyVia, outVars>>

\* variant: no room for the terminator
AllocSize_exact(sz) == sz

\* the byte count given to calloc
AllocSize(sz) == sz + 2

\* buffer = calloc(size + 2, 1)
gpd_calloc ==
    /\ pc = "gpd_calloc"
    /\ \/ /\ gpd_error("MemoryError", "none")
          /\ UNCHANGED bufsz
       \/ /\ buffer' = "alloc" /\ bufsz' = AllocSize(size)
          /\ Goto("gpd_copy")
          /\ UNCHANGED hVars
    /\ UNCHANGED <<gpd_frame, fnVars, bitness, size, copyLen, rdVars, outVars>>

\* variant: the final copy always uses ReadProcessMemory
CopyRead_native(insp, b) == "ReadProcessMemory"

\* the read the #ifndef _WIN64 / weAreWow64 && !theyAreWow64 test before the
\* final copy selects
CopyRead(insp, b) ==
    IF insp # "win64" /\ b = "Narrower" THEN "NtWow64ReadVirtualMemory64"
    ELSE "ReadProcessMemory"

\* the final ReadProcessMemory / NtWow64ReadVirtualMemory64 and the return
gpd_copy ==
    /\ pc = "gpd_copy"
    /\ copyLen' = size
    /\ copyVia' = [read |-> CopyRead(inspector, bitness),
                   from |-> IF CopyRead(inspector, bitness) =
                                  "NtWow64ReadVirtualMemory64"
                            THEN src64 ELSE src]
    /\ \/ /\ gpd_error("WindowsError", OtherError)
          /\ UNCHANGED outVars
       \/ /\ CloseHandle
          /\ pdata' = "buffer" /\ psize' = size
          /\ Return(0, "none", "none")
          /\ UNCHANGED buffer
    /\ UNCHANGED <<gpd_frame, fnVars, bitness, size, bufsz, procParameters,
                   src, src64, info>>

\* wcslen(data), as psutil_get_cwd calls it and CommandLineToArgvW scans in
\* psutil_get_cmdline: the number of 16-bit characters before the first
\* one that is 0, when the `sz` bytes copied hold no such character and
\* the bytes after them are 0
wcslen(sz) == (sz + 1) \div 2

\* bytes of data that scan reads, the terminating character included
BytesScanned(sz) == 2 * (wcslen(sz) + 1)

----------------------------------------------------------------------------
\* psutil_get_cmdline_data

\* what no step of psutil_get_cmdline_data changes
gcd_frame == <<envVars, pidsVars, lastError, iphr, gpiVars, fnVars, bitness,
               bufsz, rdVars, exitCode>>

\* the error label of psutil_get_cmdline_data; `h` is the value of hProcess
gcd_error(e, w, h) ==
    /\ Return(-1, e, w)
    /\ cmdline_buffer' = IF cmdline_buffer = "alloc" THEN "freed"
                         ELSE cmdline_buffer
    /\ CASE h = "NULL" -> UNCHANGED <<hVars, stray>>
         [] h = "H"    -> CloseHandle /\ UNCHANGED stray
         [] OTHER      -> stray' = TRUE /\ UNCHANGED hVars

\* psutil_GetProcAddress and cmdline_buffer = calloc(ret_length, 1)
gcd_GetProcAddress ==
    /\ pc = "gcd"
    /\ \/ \E h \in Uninitialised : gcd_error("WindowsError", OtherError, h)
       \/ \E h \in Uninitialised : gcd_error("MemoryError", "none", h)
       \/ /\ cmdline_buffer' = "alloc"
          /\ Goto("hfp")
          /\ UNCHANGED <<hVars, stray>>
    /\ UNCHANGED <<gcd_frame, size, buffer, outVars, copyLen, status>>

\* hProcess = psutil_handle_from_pid(pid, ...); if NULL goto error
gcd_handle ==
    /\ pc = "hfp_ret" /\ op = "get_cmdline" /\ use_peb = 0
    /\ IF hProcess = "NULL"
       THEN gcd_error(err, werr, "NULL")
       ELSE Goto("gcd_query") /\ UNCHANGED <<hVars, cmdline_buffer, stray>>
    /\ UNCHANGED <<gcd_frame, size, buffer, outVars, copyLen, status>>

\* ULONG ret_length = 4096
CmdlineBufferSize == 4096

\* bytes ProcessCommandLineInformation needs for a command line of `len`
\* bytes: the UNICODE_STRING, the characters and the terminator
CmdlineNeeded(len) == UnicodeStringBytes + len + 2

\* NTSTATUS values NtQueryInformationProcess can give for a command line
\* of `len` bytes and a buffer of `cb` bytes
CmdlineStatuses(len, cb) ==
    IF CmdlineNeeded(len) > cb
    THEN {"STATUS_INFO_LENGTH_MISMATCH", "STATUS_FAILED"}
    ELSE {"STATUS_SUCCESS", "STATUS_FAILED"}

\* NT_SUCCESS(status)
NT_SUCCESS(st) == st = "STATUS_SUCCESS"

\* NtQueryInformationProcess(ProcessCommandLineInformation) and the copy
\* into cmdline_buffer_wchar
gcd_query ==
    /\ pc = "gcd_query"
    /\ \E len \in CmdLengths :
       \E st \in CmdlineStatuses(len, CmdlineBufferSize) :
          /\ status' = st
          /\ IF ~NT_SUCCESS(st)
             THEN /\ gcd_error("WindowsError", OtherError, hProcess)
                  /\ UNCHANGED <<buffer, outVars, size, copyLen>>
             ELSE \/ \* cmdline_buffer_wchar = calloc(...) fails
                     /\ gcd_error("MemoryError", "none", hProcess)
                     /\ UNCHANGED <<buffer, outVars, size, copyLen>>
                  \/ /\ size' = len + 2 /\ psize' = len + 2
                     /\ copyLen' = len
                     /\ buffer' = "alloc" /\ pdata' = "buffer"
                     /\ cmdline_buffer' = "freed"
                     /\ CloseHandle
                     /\ Return(0, "none", "none")
                     /\ UNCHANGED stray
    /\ UNCHANGED gcd_frame

----------------------------------------------------------------------------
\* psutil_get_proc_info

\* the do-while scan from record i: index of the first record whose id
\* is p, 0 when PSUTIL_NEXT_PROCESS gives NULL first
\* variant: the walk stops at the last record without testing it
RECURSIVE ScanFrom_short(_, _, _)
ScanFrom_short(s, i, p) ==
    IF i >= Len(s) THEN 0
    ELSE IF s[i] = p THEN i
    ELSE ScanFrom_short(s, i + 1, p)

RECURSIVE ScanFrom(_, _, _)
ScanFrom(s, i, p) ==
    IF s[i] = p THEN i
    ELSE IF i = Len(s) THEN 0
    ELSE ScanFrom(s, i + 1, p)

\* what no step of psutil_get_proc_info changes
gpi_frame == <<envVars, hVars, pidsVars, lastError, iphr, fnVars, gpdVars,
               cmdline_buffer, psize, exitCode>>

\* the error label of psutil_get_proc_info; `b` is the value of buffer
gpi_error(e, w, b) ==
    /\ Return(0, e, w)
    /\ CASE b = "garbage" -> stray' = TRUE /\ UNCHANGED buffer
         [] b = "alloc"   -> buffer' = "freed" /\ UNCHANGED stray
         [] OTHER         -> UNCHANGED <<buffer, stray>>

\* psutil_GetProcAddressFromLib("ntdll.dll", "NtQuerySystemInformation")
gpi_GetProcAddress ==
    /\ pc = "gpi"
    /\ \/ \E b \in Uninitialised : gpi_error("WindowsError", OtherError, b)
       \/ Goto("gpi_malloc") /\ UNCHANGED <<buffer, stray>>
    /\ UNCHANGED <<gpi_frame, gpiVars, pdata, status>>

\* bufferSize = initialBufferSize; buffer = malloc(bufferSize)
gpi_malloc ==
    /\ pc = "gpi_malloc"
    /\ bufferSize' = initialBufferSize
    /\ \/ gpi_error("MemoryError", "none", "NULL")
       \/ /\ buffer' = "alloc" /\ Goto("gpi_query")
          /\ UNCHANGED stray
    /\ UNCHANGED <<gpi_frame, initialBufferSize, snap, process, nQuery, pdata,
                   status>>

\* NTSTATUS values NtQuerySystemInformation(SystemProcessInformation) can
\* give for a buffer of `cb` bytes
SnapshotStatuses(cb) ==
    IF cb < SnapshotBytes
    THEN {"STATUS_INFO_LENGTH_MISMATCH", "STATUS_BUFFER_TOO_SMALL",
          "STATUS_FAILED"}
    ELSE {"STATUS_SUCCESS", "STATUS_FAILED"}

\* variant: no status is retried
gpi_retry_never(st) == FALSE

\* variant: only one of the two codes is retried
gpi_retry_one_code(st) == st = "STATUS_BUFFER_TOO_SMALL"

\* status == STATUS_BUFFER_TOO_SMALL || status == STATUS_INFO_LENGTH_MISMATCH
gpi_retry(st) ==
    st \in {"STATUS_BUFFER_TOO_SMALL", "STATUS_INFO_LENGTH_MISMATCH"}

\* variant: the size is stored whatever it is
gpi_hint_uncapped(hint, sz) == sz

\* if (bufferSize <= 0x20000) initialBufferSize = bufferSize
gpi_hint(hint, sz) == IF sz <= HintCeiling THEN sz ELSE hint

\* one NtQuerySystemInformation call of the while (TRUE) loop, and what
\* follows the loop when it ends
gpi_query ==
    /\ pc = "gpi_query"
    /\ nQuery' = nQuery + 1
    /\ \E st \in SnapshotStatuses(bufferSize) :
          /\ status' = st
          /\ bufferSize' = IF st = "STATUS_FAILED" THEN bufferSize
                           ELSE SnapshotBytes
          /\ IF gpi_retry(st)
             THEN \* free(buffer); buffer = malloc(bufferSize)
                  /\ \/ /\ buffer' = "NULL"
                        /\ Return(0, "MemoryError", "none")
                     \/ /\ Goto("gpi_query")
                        /\ UNCHANGED buffer
                  /\ UNCHANGED <<initialBufferSize, snap, process, pdata,
                                 stray>>
             ELSE IF st # "STATUS_SUCCESS"
             THEN /\ gpi_error("RuntimeError", "none", buffer)
                  /\ UNCHANGED <<initialBufferSize, snap, process, pdata>>
             ELSE /\ initialBufferSize' =
                        gpi_hint(initialBufferSize, bufferSize')
                  /\ snap' = SnapshotPids
                  /\ process' = ScanFrom(SnapshotPids, 1, pid)
                  /\ IF process' # 0
                     THEN /\ Return(1, "none", "none")
                          /\ pdata' = "buffer"
                          /\ UNCHANGED <<buffer, stray>>
                     ELSE /\ gpi_error("NoSuchProcess", "none", buffer)
                          /\ UNCHANGED pdata
    /\ UNCHANGED gpi_frame

----------------------------------------------------------------------------

\* no extractor call has returned yet
NoPrev == [op |-> "none"]

InitCall ==
    /\ op = "idle" /\ pid = 0 /\ use_peb = 0 /\ dwDesiredAccess = "none"
    /\ pc = "idle"
    /\ hProcess = "NULL" /\ hstate = "none" /\ nOpen = 0 /\ nClose = 0
    /\ lastError = "none" /\ iphr = 2 /\ exitCode = -1
    /\ site = "none" /\ procArraySz = 0 /\ enumReturnSz = 0 /\ iter = 0
    /\ procArray = NullArray /\ lastEnum = NoEnum /\ found = 2
    /\ ret = 0 /\ err = "none" /\ werr = "none" /\ retFrom = "none"
    /\ hist = "live"
    /\ bitness = "none" /\ size = 0 /\ buffer = "NULL" /\ bufsz = 0
    /\ cmdline_buffer = "NULL" /\ copyLen = -1
    /\ procParameters = NoParams /\ src = NoAddress
    /\ src64 = NoAddress /\ copyVia = NoCopy /\ info = NoInfo
    /\ pdata = "untouched" /\ psize = -1 /\ stray = FALSE
    /\ bufferSize = 0 /\ snap = <<>> /\ process = 0 /\ status = "none"
    /\ nQuery = 0
    /\ initialBufferSize = InitialHint
    /\ NtWow64QueryInformationProcess64 = "NULL"
    /\ NtWow64ReadVirtualMemory64 = "NULL"
    /\ pstate = "absent" /\ pexit = STILL_ACTIVE /\ pwow = FALSE
    /\ prev = NoPrev

Init ==
    /\ PSUTIL_TESTING \in BOOLEAN
    /\ inspector \in {"win64", "x86", "wow64"}
    /\ extra \in {0, PidsPerChunk - 1}
    /\ InitCall

Next ==
    \/ Spawn \/ Exit \/ Remove \/ Reap
    \/ Call \/ CallPids \/ Finish
    \/ get_pids_loop \/ get_pids_return
    \/ pir_OpenProcess \/ pir_GetExitCodeProcess
    \/ handle_from_pid \/ is_phandle_running \/ check_phandle
    \/ open_handle_return
    \/ gpd_GetProcAddress \/ gpd_handle \/ gpd_bitness \/ gpd_wow64fn
    \/ gpd_basic_info \/ gpd_read_peb \/ gpd_read_params \/ gpd_kind
    \/ gpd_calloc \/ gpd_copy
    \/ gcd_GetProcAddress \/ gcd_handle \/ gcd_query
    \/ gpi_GetProcAddress \/ gpi_malloc \/ gpi_query

Spec == Init /\ [][Next]_vars

\* The process table enumeration alone, over every table size around the
\* multiples of the enumeration chunk
InitPids ==
    /\ PSUTIL_TESTING \in BOOLEAN
    /\ inspector \in {"win64", "x86", "wow64"}
    /\ extra \in Extras
    /\ InitCall

NextPids ==
    \/ Spawn \/ Exit \/ Remove \/ Reap
    \/ CallPids \/ Finish
    \/ get_pids_loop \/ get_pids_return

SpecPids == InitPids /\ [][NextPids]_vars

\* The snapshot lookup alone, with the size hint holding any value another
\* call can have left in it, and another thread's call writing the hint
\* between any two steps of this one
HintValues == {SnapBytesPerProc, InitialHint, HintCeiling}

HintRace ==
    /\ \E h \in HintValues : initialBufferSize' = h
    /\ initialBufferSize' # initialBufferSize
    /\ UNCHANGED <<envVars, hVars, pidsVars, resVars, fnVars, gpdVars,
                   outVars, bufferSize, snap, process, nQuery, buffer,
                   cmdline_buffer,
                   stray, status, pc, lastError, iphr, exitCode>>

InitHint ==
    /\ PSUTIL_TESTING \in BOOLEAN
    /\ inspector \in {"win64", "x86", "wow64"}
    /\ extra \in Extras
    /\ op = "idle" /\ pid = 0 /\ use_peb = 0 /\ dwDesiredAccess = "none"
    /\ pc = "idle"
    /\ hProcess = "NULL" /\ hstate = "none" /\ nOpen = 0 /\ nClose = 0
    /\ lastError = "none" /\ iphr = 2 /\ exitCode = -1
    /\ site = "none" /\ procArraySz = 0 /\ enumReturnSz = 0 /\ iter = 0
    /\ procArray = NullArray /\ lastEnum = NoEnum /\ found = 2
    /\ ret = 0 /\ err = "none" /\ werr = "none" /\ retFrom = "none"
    /\ hist = "live"
    /\ bitness = "none" /\ size = 0 /\ buffer = "NULL" /\ bufsz = 0
    /\ cmdline_buffer = "NULL" /\ copyLen = -1
    /\ procParameters = NoParams /\ src = NoAddress
    /\ src64 = NoAddress /\ copyVia = NoCopy /\ info = NoInfo
    /\ pdata = "untouched" /\ psize = -1 /\ stray = FALSE
    /\ bufferSize = 0 /\ snap = <<>> /\ process = 0 /\ status = "none"
    /\ nQuery = 0
    /\ initialBufferSize \in HintValues
    /\ NtWow64QueryInformationProcess64 = "NULL"
    /\ NtWow64ReadVirtualMemory64 = "NULL"
    /\ pstate = "absent" /\ pexit = STILL_ACTIVE /\ pwow = FALSE
    /\ prev = NoPrev

NextHint ==
    \/ Spawn \/ Exit \/ Remove \/ Reap
    \/ CallInfo \/ Finish \/ HintRace
    \/ gpi_GetProcAddress \/ gpi_malloc \/ gpi_query

SpecHint == InitHint /\ [][NextHint]_vars

\* One extractor called again and again on a live target that nothing
\* changes: the only state a call inherits is the function-static state
\* the calls before it left
FailedAt ==
    IF err = "none" THEN <<"none">>
    ELSE CASE retFrom \in {"gpd", "gcd"} -> <<"GetProcAddress", err>>
           [] retFrom = "hfp_ret" -> <<"psutil_handle_from_pid", err, werr>>
           [] retFrom = "gpd_wow64fn" ->
                IF NtWow64QueryInformationProcess64 = "NULL"
                THEN <<"NtWow64QueryInformationProcess64">>
                ELSE <<"NtWow64ReadVirtualMemory64">>
           [] retFrom = "gpd_kind" ->
                IF err = "AccessDenied" THEN <<"none">>
                ELSE <<"VirtualQueryEx">>
           [] retFrom = "gcd_query" -> <<"gcd_query", status, err>>
           [] OTHER -> <<retFrom>>

CallAgain ==
    /\ op = "idle"
    /\ \E p \in Pids, o \in DataOps, peb \in {0, 1} :
          /\ peb = 0 => o = "get_cmdline"
          /\ prev.op # "none" =>
                (o = prev.op /\ p = prev.pid /\ peb = prev.use_peb)
          /\ Begin(o, p, peb,
                   IF peb = 1
                   THEN "PROCESS_QUERY_INFORMATION|PROCESS_VM_READ"
                   ELSE "PROCESS_QUERY_LIMITED_INFORMATION",
                   IF peb = 1 THEN "gpd" ELSE "gcd")
    /\ UNCHANGED prev

FinishAgain ==
    /\ pc = "done"
    /\ prev' = [op |-> op, pid |-> pid, use_peb |-> use_peb,
                ret |-> ret, err |-> err, werr |-> werr,
                pdata |-> pdata, psize |-> psize,
                failed |-> FailedAt, size |-> size, copyLen |-> copyLen,
                query64 |-> NtWow64QueryInformationProcess64,
                read64 |-> NtWow64ReadVirtualMemory64]
    /\ Begin("idle", 0, 0, "none", "idle")

InitIdem ==
    /\ PSUTIL_TESTING \in BOOLEAN
    /\ inspector \in {"win64", "x86", "wow64"}
    /\ extra = 0
    /\ op = "idle" /\ pid = 0 /\ use_peb = 0 /\ dwDesiredAccess = "none"
    /\ pc = "idle"
    /\ hProcess = "NULL" /\ hstate = "none" /\ nOpen = 0 /\ nClose = 0
    /\ lastError = "none" /\ iphr = 2 /\ exitCode = -1
    /\ site = "none" /\ procArraySz = 0 /\ enumReturnSz = 0 /\ iter = 0
    /\ procArray = NullArray /\ lastEnum = NoEnum /\ found = 2
    /\ ret = 0 /\ err = "none" /\ werr = "none" /\ retFrom = "none"
    /\ hist = "live"
    /\ bitness = "none" /\ size = 0 /\ buffer = "NULL" /\ bufsz = 0
    /\ cmdline_buffer = "NULL" /\ copyLen = -1
    /\ procParameters = NoParams /\ src = NoAddress
    /\ src64 = NoAddress /\ copyVia = NoCopy /\ info = NoInfo
    /\ pdata = "untouched" /\ psize = -1 /\ stray = FALSE
    /\ bufferSize = 0 /\ snap = <<>> /\ process = 0 /\ status = "none"
    /\ nQuery = 0
    /\ initialBufferSize \in HintValues
    /\ NtWow64QueryInformationProcess64 = "NULL"
    /\ NtWow64ReadVirtualMemory64 = "NULL"
    /\ pstate = "live" /\ pexit = STILL_ACTIVE /\ pwow \in BOOLEAN
    /\ prev = NoPrev

NextIdem ==
    \/ CallAgain \/ FinishAgain
    \/ get_pids_loop \/ get_pids_return
    \/ handle_from_pid \/ is_phandle_running \/ check_phandle
    \/ gpd_GetProcAddress \/ gpd_handle \/ gpd_bitness \/ gpd_wow64fn
    \/ gpd_basic_info \/ gpd_read_peb \/ gpd_read_params \/ gpd_kind
    \/ gpd_calloc \/ gpd_copy
    \/ gcd_GetProcAddress \/ gcd_handle \/ gcd_query

SpecIdem == InitIdem /\ [][NextIdem]_vars

----------------------------------------------------------------------------
\* Properties

Done == pc = "done"
NoRecord(s, p) == \A i \in 1..Len(s) : s[i] # p
EnvironNarrower == kind = "KIND_ENVIRON" /\ bitness = "Narrower"

\* C1: when psutil_get_process_data or psutil_pid_is_running returns, a
\* handle OpenProcess gave the call has been closed exactly once and no
\* handle is open, whatever the OS calls returned.
C1_HandleClosedOnce ==
    (Done /\ (op = "pid_is_running" \/ UsesGPD)) =>
        /\ hstate # "open"
        /\ nClose = (IF hstate = "none" THEN 0 ELSE 1)

\* C2: when psutil_handle_from_pid returns NULL after OpenProcess gave a
\* handle, that handle has been closed, with PSUTIL_TESTING set or not.
C2_ClosedBeforeError ==
    (pc = "hfp_ret" /\ hProcess = "NULL" /\ hstate # "none") =>
        hstate = "closed"

\* C3: psutil_handle_from_pid returns a handle only when
\* psutil_is_phandle_running returned 1, and a handle that is returned, or
\* for which 1 was returned, is open and was never closed.
C3_ReturnedHandleValid ==
    /\ (pc = "hfp_ret" /\ hProcess # "NULL") =>
          (iphr = 1 /\ hstate = "open" /\ nClose = 0)
    /\ (pc = "check_phandle" /\ iphr = 1) =>
          (hstate = "open" /\ nClose = 0)
    /\ (Done /\ op = "handle_from_pid" /\ ret = 0) =>
          (iphr = 1 /\ hstate = "open" /\ nClose = 0)

C3_Witness ==
    /\ Done /\ op = "handle_from_pid" /\ ret = 0
    /\ site = "iphr_exited" /\ hstate = "open"

\* C4: psutil_handle_from_pid(0, access) gives NULL with AccessDenied for
\* every access value and calls OpenProcess never; every extractor called
\* with pid 0 fails without calling OpenProcess, with AccessDenied whenever
\* it returns from the handle acquisition, and otherwise with the error of
\* the function lookup or of the allocation that precedes the acquisition.
C4_IdleAccessDenied ==
    /\ (pc = "hfp_ret" /\ pid = 0) =>
          /\ hProcess = "NULL" /\ err = "AccessDenied"
          /\ nOpen = 0 /\ hstate = "none"
    /\ (Done /\ pid = 0 /\ op = "handle_from_pid") =>
          (ret = -1 /\ err = "AccessDenied" /\ nOpen = 0)
    /\ (Done /\ pid = 0 /\ op \in DataOps) =>
          /\ ret = -1 /\ nOpen = 0 /\ pdata = "untouched"
          /\ (retFrom = "hfp_ret" => err = "AccessDenied")
          /\ (retFrom # "hfp_ret" =>
                /\ retFrom \in {"gpd", "gcd"}
                /\ err \in {"WindowsError", "MemoryError"})

C4_Witness ==
    /\ Done /\ pid = 0 /\ op = "get_cmdline" /\ use_peb = 0
    /\ retFrom = "hfp_ret" /\ err = "AccessDenied"

\* C4 as stated: every extractor called with pid 0 fails with AccessDenied.
C4_AlwaysAccessDenied ==
    /\ (pc = "hfp_ret" /\ pid = 0) =>
          (hProcess = "NULL" /\ err = "AccessDenied" /\ nOpen = 0)
    /\ (Done /\ pid = 0 /\ op \in DataOps) =>
          (ret = -1 /\ err = "AccessDenied")

\* C5: psutil_pid_is_running(0) returns 1 with no exception set and
\* without calling OpenProcess, in every OS state.
C5_IdleIsRunning ==
    (Done /\ op = "pid_is_running" /\ pid = 0) =>
        (ret = 1 /\ err = "none" /\ nOpen = 0 /\ hstate = "none")

C5_Witness ==
    /\ Done /\ op = "pid_is_running" /\ pid = 0 /\ ret = 1
    /\ PSUTIL_TESTING /\ pstate = "zombie" /\ extra > 0

\* C6: for a pid in the process table during the whole call
\* psutil_pid_is_running returns 1, or -1 with WindowsError or MemoryError
\* set when an OS call or the allocation failed, and never 0; for a pid
\* with no process object during the whole call it returns 0.
C6_LivenessOracle ==
    (Done /\ op = "pid_is_running") =>
        /\ hist = "live" =>
              /\ ret \in {1, -1}
              /\ ret = -1 => err \in {"WindowsError", "MemoryError"}
        /\ hist = "absent" => ret = 0

C6_Witness ==
    /\ Done /\ op = "pid_is_running" /\ pid # 0
    /\ hist = "live" /\ ret = -1 /\ err = "WindowsError"

\* C6 as stated: 1 for a pid in the process table during the call, 0 for a
\* pid that is not.
C6_RunningIffLive ==
    (Done /\ op = "pid_is_running") =>
        /\ hist = "live" => ret = 1
        /\ hist \in {"absent", "gone"} => ret = 0

\* C7: for a pid with no process object during the whole call every
\* extractor fails and leaves the output untouched, with NoSuchProcess
\* whenever it called OpenProcess and otherwise with the error of the
\* function lookup or allocation that precedes it; psutil_get_proc_info
\* returns 0 with NoSuchProcess when it got a snapshot and no record of it
\* carries the pid.
C7_AbsentNotFound ==
    /\ (Done /\ op \in DataOps /\ hist = "absent") =>
          /\ ret = -1 /\ pdata = "untouched" /\ hstate = "none"
          /\ nOpen = 1 => err = "NoSuchProcess"
          /\ nOpen # 1 =>
                /\ nOpen = 0 /\ retFrom \in {"gpd", "gcd"}
                /\ err \in {"WindowsError", "MemoryError"}
    /\ (Done /\ op = "get_proc_info" /\ snap # <<>> /\ NoRecord(snap, pid)) =>
          (ret = 0 /\ err = "NoSuchProcess" /\ pdata = "untouched")

C7_Witness ==
    /\ Done /\ op = "get_environ" /\ hist = "absent"
    /\ nOpen = 1 /\ err = "NoSuchProcess" /\ PSUTIL_TESTING

\* C7 as stated: every extractor fails with NoSuchProcess for such a pid.
C7_AlwaysNotFound ==
    /\ (Done /\ op \in DataOps /\ hist = "absent") =>
          (ret = -1 /\ err = "NoSuchProcess")
    /\ (Done /\ op = "get_proc_info" /\ snap # <<>> /\ NoRecord(snap, pid)) =>
          (ret = 0 /\ err = "NoSuchProcess")

\* C8: psutil_get_pids returns the array the last EnumProcesses call
\* wrote, the count it stores is the returned byte size divided by the
\* size of one id, and the array holds every entry the process table had
\* at that call, for tables longer than 1024 entries and for tables of an
\* exact multiple of 1024 entries too.
C8_PidsComplete ==
    (Done /\ op = "get_pids" /\ ret >= 0) =>
        /\ procArray = [n |-> lastEnum.n, hasP |-> lastEnum.hasP]
        /\ ret * SizeofDWORD = enumReturnSz
        /\ ret = lastEnum.n
        /\ lastEnum.n = lastEnum.len

C8_Witness ==
    /\ Done /\ op = "get_pids" /\ ret = 2 * PidsPerChunk /\ iter = 3

\* C9: in the loop of psutil_get_pids the array has 1024 entries in the
\* first iteration and 1024 more in each further one; the loop goes round
\* again exactly when the returned byte count equals the byte size of the
\* array, so after a successful enumeration the returned byte count is
\* less than that size.
C9_GrowthLoop ==
    /\ pc \in {"get_pids", "get_pids_ret"} =>
          procArraySz = PidsPerChunk * iter
    /\ (pc = "get_pids" /\ iter > 0) =>
          enumReturnSz = procArraySz * SizeofDWORD
    /\ (pc = "get_pids_ret" /\ procArray # NullArray) =>
          (iter >= 1 /\ enumReturnSz < procArraySz * SizeofDWORD)

C9_Witness ==
    /\ pc = "get_pids_ret" /\ procArray # NullArray /\ iter = 3
    /\ enumReturnSz = 2 * PidsPerChunk * SizeofDWORD

\* C10: with KIND_ENVIRON in the Narrower case psutil_get_process_data
\* fails, reads no environment bytes and returns no buffer; the exception is
\* AccessDenied unless one of the queries or reads before the kind test
\* failed with WindowsError.  For every other kind and bitness the kind
\* test raises no AccessDenied, and the final copy reads exactly `size`
\* bytes into a buffer of size + 2 bytes.
C10_EnvironNarrowerRefused ==
    /\ (Done /\ UsesGPD /\ EnvironNarrower) =>
          /\ ret = -1 /\ copyLen = -1 /\ buffer = "NULL"
          /\ pdata = "untouched"
          /\ err \in {"AccessDenied", "WindowsError"}
          /\ err = "WindowsError" =>
                retFrom \in {"gpd_pbi", "gpd_peb", "gpd_params"}
          /\ retFrom = "gpd_kind" => err = "AccessDenied"
    /\ (UsesGPD /\ pc \in {"gpd_calloc", "gpd_copy"}) => ~EnvironNarrower
    /\ (Done /\ UsesGPD /\ retFrom = "gpd_kind" /\ ~EnvironNarrower) =>
          err # "AccessDenied"
    /\ (UsesGPD /\ copyLen >= 0) =>
          (copyLen = size /\ bufsz = size + 2 /\ buffer # "NULL")

C10_Witness ==
    /\ Done /\ op = "get_environ" /\ bitness = "Narrower"
    /\ retFrom = "gpd_kind" /\ err = "AccessDenied" /\ hstate = "closed"

\* C10 as stated: with KIND_ENVIRON in the Narrower case the call fails
\* with AccessDenied.
C10_AlwaysAccessDenied ==
    (Done /\ UsesGPD /\ EnvironNarrower) =>
        (ret = -1 /\ err = "AccessDenied" /\ copyLen = -1
         /\ pdata = "untouched")

IsGCD == op = "get_cmdline" /\ use_peb = 0

\* C11: when psutil_get_process_data or psutil_get_cmdline_data returns
\* -1, *pdata and *psize are as they were and every buffer the call
\* allocated has been freed; when it returns 0 both are set, the work
\* buffer is freed and the returned buffer holds the whole region that
\* was read.
C11_NoPartialSuccess ==
    (Done /\ (UsesGPD \/ IsGCD)) =>
        /\ ret \in {0, -1}
        /\ ret = -1 =>
              /\ pdata = "untouched" /\ psize = -1
              /\ buffer \in {"NULL", "freed"}
              /\ cmdline_buffer \in {"NULL", "freed"}
        /\ ret = 0 =>
              /\ pdata = "buffer" /\ psize = size /\ buffer = "alloc"
              /\ cmdline_buffer # "alloc"
              /\ UsesGPD => (copyLen = size /\ bufsz = size + 2)
              /\ IsGCD => (copyLen + 2 = size /\ NT_SUCCESS(status))

C11_Witness ==
    /\ Done /\ UsesGPD /\ ret = -1 /\ retFrom = "gpd_copy"
    /\ buffer = "freed" /\ pdata = "untouched"

\* C12: when the first ProcessCommandLineInformation query of
\* psutil_get_cmdline_data reports that its 4096-byte buffer is too small,
\* the call still returns the command line and not an error.
C12_UndersizedRetried ==
    (Done /\ IsGCD /\ status = "STATUS_INFO_LENGTH_MISMATCH") =>
        (ret = 0 /\ pdata = "buffer")

IsGPI == op = "get_proc_info"

\* C13: whatever the size hint holds at the start of psutil_get_proc_info
\* and however another thread's call rewrites it during the call, the call
\* returns the record when the snapshot it obtained holds the pid and
\* NoSuchProcess when it does not; it fails otherwise only when the
\* function lookup, an allocation or the query itself (with a status other
\* than the two too-small codes) failed; and while the process table does
\* not change it issues at most two queries.
C13_HintIndependent ==
    /\ (Done /\ IsGPI /\ snap # <<>>) =>
          /\ status = "STATUS_SUCCESS"
          /\ IF NoRecord(snap, pid)
             THEN ret = 0 /\ err = "NoSuchProcess" /\ pdata = "untouched"
             ELSE ret = 1 /\ err = "none" /\ pdata = "buffer"
    /\ (Done /\ IsGPI /\ snap = <<>>) =>
          /\ ret = 0 /\ pdata = "untouched"
          /\ \/ retFrom = "gpi" /\ err = "WindowsError"
             \/ err = "MemoryError"
             \/ err = "RuntimeError" /\ status = "STATUS_FAILED"
    /\ (IsGPI /\ pid # 0 /\ hist # "mixed") => nQuery <= 2

C13_Witness ==
    /\ Done /\ IsGPI /\ pid = TargetPid /\ ret = 1 /\ nQuery = 2
    /\ initialBufferSize # bufferSize /\ bufferSize <= HintCeiling

\* C14: with PSUTIL_TESTING off no call sets AssertionError and
\* psutil_is_phandle_running never returns -2; psutil_pid_in_pids is then
\* called only after an exit code other than STILL_ACTIVE, so a
\* STILL_ACTIVE exit code is answered without any enumeration.
C14_AssertionOnlyInTesting ==
    ~PSUTIL_TESTING =>
        /\ err # "AssertionError"
        /\ iphr # -2
        /\ site \in {"none", "list", "pir_exited", "iphr_exited"}
        /\ site \in {"pir_exited", "iphr_exited"} =>
              exitCode \notin {-1, STILL_ACTIVE}
        /\ exitCode = STILL_ACTIVE => (site = "none" /\ iter = 0)

C14_Witness ==
    /\ ~PSUTIL_TESTING /\ Done /\ op = "pid_is_running" /\ pid # 0
    /\ pstate = "zombie" /\ pexit = STILL_ACTIVE
    /\ ret = 1 /\ site = "none" /\ nClose = 1

\* C15: when an extractor (command line by either strategy, cwd, environ) is
\* called twice in a row on the same live, unchanged process and every OS
\* call the second call makes is answered as the first call's was, the two
\* calls return the same value, the same exception and the same output; the
\* function pointers the first call cached change which lookups the second
\* call makes but not what it returns.
Again ==
    /\ Done /\ prev.op = op /\ prev.pid = pid /\ prev.use_peb = use_peb

\* the first call failed in a lookup the second call did not make
Skipped ==
    \/ /\ prev.failed = <<"NtWow64QueryInformationProcess64">>
       /\ prev.query64 # "NULL"
    \/ /\ prev.failed = <<"NtWow64ReadVirtualMemory64">>
       /\ prev.read64 # "NULL"

SameAnswers ==
    \/ /\ FailedAt = prev.failed
       /\ size = prev.size /\ copyLen = prev.copyLen
    \/ /\ Skipped
       /\ FailedAt \in {<<"NtWow64ReadVirtualMemory64">>, <<"gpd_pbi">>,
                         <<"gpd_peb">>, <<"gpd_params">>, <<"VirtualQueryEx">>,
                         <<"gpd_calloc">>, <<"gpd_copy">>, <<"none">>}

C15_SameResultTwice ==
    (Again /\ SameAnswers) =>
        /\ ret = prev.ret /\ err = prev.err /\ werr = prev.werr
        /\ pdata = prev.pdata /\ psize = prev.psize

\* the second call skipped both lookups the first call cached and returned
\* the same data
C15_Witness ==
    /\ Again /\ SameAnswers
    /\ bitness = "Narrower" /\ prev.read64 = "fn" /\ ret = 0
    /\ pdata = "buffer" /\ prev.pdata = "buffer" /\ psize = prev.psize

\* C16: when OpenProcess fails with ERROR_INVALID_PARAMETER, handle
\* acquisition reports NoSuchProcess unless PSUTIL_TESTING is set and
\* psutil_pid_in_pids found the pid in the table, in which case it reports
\* AssertionError instead; psutil_pid_in_pids is called only under
\* PSUTIL_TESTING, and NoSuchProcess is also reported when its enumeration
\* failed.
OpenInvalid ==
    /\ pc = "hfp_ret" /\ nOpen = 1 /\ hstate = "none"
    /\ \/ site = "iphr_invalid"
       \/ site = "none" /\ lastError = "ERROR_INVALID_PARAMETER"

C16_NotFoundUnlessFound ==
    OpenInvalid =>
        /\ hProcess = "NULL"
        /\ found = 2 <=> ~PSUTIL_TESTING
        /\ err = IF found = 1 THEN "AssertionError" ELSE "NoSuchProcess"

\* the pid was not there for OpenProcess and was in the table enumerated next
C16_Witness ==
    OpenInvalid /\ found = 1 /\ err = "AssertionError" /\ iphr = -2

\* C16 as stated: NoSuchProcess after ERROR_INVALID_PARAMETER only when the
\* table-membership check has confirmed that the pid is not in the table.
C16_NotFoundOnlyIfConfirmed ==
    (OpenInvalid /\ err = "NoSuchProcess") => found = 0

\* C17: when GetExitCodeProcess succeeds, STILL_ACTIVE yields Running
\* (AssertionError under PSUTIL_TESTING when the table does not list the
\* pid), and any other exit code yields what the table says: Running when
\* psutil_pid_in_pids finds the pid, NotRunning when it does not; when the
\* enumeration fails psutil_pid_is_running returns -1 and
\* psutil_is_phandle_running returns 0.
PirProbed == Done /\ op = "pid_is_running" /\ exitCode # -1
IphrProbed == pc = "check_phandle" /\ exitCode # -1

C18_EnumFailureIsError ==
    /\ (pc = "check_phandle" /\ found = -1) => iphr = -1
    /\ (pc = "hfp_ret" /\ found = -1) => err # "NoSuchProcess"
    /\ (Done /\ op = "pid_is_running" /\ found = -1) => ret = -1

\* C19: in psutil_pid_is_running a failure of OpenProcess or of
\* GetExitCodeProcess with ERROR_ACCESS_DENIED yields 1, a failure of
\* OpenProcess with ERROR_INVALID_PARAMETER yields 0, and any other failure
\* code yields -1 with a WindowsError carrying that code; the value is always
\* one of 1, 0 and -1.  Under PSUTIL_TESTING, and only then, the table is
\* enumerated after the first two, and -1 with AssertionError is returned
\* instead when the table contradicts the answer.
PirDone == Done /\ op = "pid_is_running" /\ pid # 0
PirOpenFailed == PirDone /\ nOpen = 1 /\ hstate = "none"
PirProbeFailed == PirDone /\ hstate = "closed" /\ exitCode = -1
PirDenied ==
    \/ PirOpenFailed /\ site = "pir_denied"
    \/ PirProbeFailed /\ site = "pir_exit_denied"
    \/ /\ PirOpenFailed \/ PirProbeFailed
       /\ site = "none" /\ lastError = "ERROR_ACCESS_DENIED"
PirInvalid ==
    /\ PirOpenFailed
    /\ \/ site = "pir_invalid"
       \/ site = "none" /\ lastError = "ERROR_INVALID_PARAMETER"
PirOtherCode ==
    /\ PirOpenFailed \/ PirProbeFailed
    /\ ~PirDenied /\ ~PirInvalid

C19_FailureOutcomes ==
    /\ PirDone => ret \in {1, 0, -1}
    /\ (PirDenied \/ PirInvalid) => (found = 2 <=> ~PSUTIL_TESTING)
    /\ PirDenied =>
          IF found = 0 THEN ret = -1 /\ err = "AssertionError" ELSE ret = 1
    /\ PirInvalid =>
          IF found = 1 THEN ret = -1 /\ err = "AssertionError" ELSE ret = 0
    /\ PirOtherCode =>
          /\ ret = -1 /\ err = "WindowsError" /\ werr = lastError
          /\ werr = OtherError /\ found = 2

\* GetExitCodeProcess is refused on an open handle and the pid is reported
\* running
C19_Witness ==
    /\ PirProbeFailed /\ PirDenied /\ ~PSUTIL_TESTING
    /\ ret = 1 /\ err = "none"

\* C19 as stated: the three outcomes with no exception.
C19_ThreeOutcomes ==
    /\ PirDenied => ret = 1
    /\ PirInvalid => ret = 0
    /\ PirOtherCode => (ret = -1 /\ err = "WindowsError" /\ werr = lastError)
    /\ PirDone => ret \in {1, 0, -1}

\* C20: each NtQuerySystemInformation call of psutil_get_proc_info is
\* followed by the retry branch exactly when its status is
\* STATUS_BUFFER_TOO_SMALL or STATUS_INFO_LENGTH_MISMATCH; the branch
\* allocates a buffer of the size the OS stored in bufferSize, which is
\* larger than the one before, and queries again (or ends the call with
\* MemoryError when the allocation fails), so the buffer never shrinks from
\* one retry to the next; any other non-zero status ends the call with
\* RuntimeError, and status 0 ends the loop and goes on to the scan of the
\* snapshot.
QueryStep == pc = "gpi_query" /\ nQuery' = nQuery + 1
RetryBranch ==
    \/ pc' = "gpi_query" /\ buffer' = "alloc" /\ err' = "none"
    \/ pc' = "done" /\ buffer' = "NULL" /\ err' = "MemoryError" /\ ret' = 0

C20_RetryLoop ==
    [][QueryStep =>
        /\ RetryBranch <=> status' \in {"STATUS_BUFFER_TOO_SMALL",
                                         "STATUS_INFO_LENGTH_MISMATCH"}
        /\ RetryBranch =>
              (bufferSize' = SnapshotBytes /\ bufferSize' > bufferSize)
        /\ status' = "STATUS_FAILED" =>
              (pc' = "done" /\ ret' = 0 /\ err' = "RuntimeError")
        /\ status' = "STATUS_SUCCESS" =>
              /\ pc' = "done" /\ err' \in {"none", "NoSuchProcess"}
              /\ ret' = IF err' = "none" THEN 1 ELSE 0
              /\ snap' = SnapshotPids
    ]_vars

\* a call whose first query found the buffer too small and whose second
\* query, on the larger buffer, succeeded
C20_Witness ==
    /\ IsGPI /\ Done /\ nQuery = 2 /\ status = "STATUS_SUCCESS"
    /\ ret = 1 /\ bufferSize = SnapshotBytes

\* C21: after a successful query psutil_get_proc_info walks the records in
\* order from the first to the one with NextEntryOffset 0 and stops at the
\* first record whose id is the pid: it returns 1 with that record and the
\* buffer, which it has not freed; when no record has the pid it raises
\* NoSuchProcess, frees the buffer and returns 0 with no record.
Scanned == Done /\ IsGPI /\ status = "STATUS_SUCCESS"

C21_ScanFirstMatch ==
    Scanned =>
        /\ snap # <<>>
        /\ IF \E i \in 1..Len(snap) : snap[i] = pid
           THEN /\ process \in 1..Len(snap) /\ snap[process] = pid
                /\ \A i \in 1..(process - 1) : snap[i] # pid
                /\ ret = 1 /\ err = "none"
                /\ pdata = "buffer" /\ buffer = "alloc"
           ELSE /\ process = 0
                /\ ret = 0 /\ err = "NoSuchProcess"
                /\ pdata = "untouched" /\ buffer = "freed"

\* the target's record is the last of three and is the one returned
C21_Witness ==
    /\ Scanned /\ pid = TargetPid /\ Len(snap) = 3 /\ process = 3
    /\ ret = 1 /\ buffer = "alloc"

\* C22: a step of psutil_get_proc_info writes initialBufferSize only when
\* its query returned status 0, and then with the size the query stored in
\* bufferSize, which is at most 0x20000; so the hint is at most 0x20000 in
\* every state, whatever calls ran before and however another thread's
\* call interleaves its own write.
C22_HintCapped ==
    /\ [](initialBufferSize <= HintCeiling)
    /\ [][(QueryStep /\ initialBufferSize' # initialBufferSize)
              => /\ status' = "STATUS_SUCCESS"
                 /\ initialBufferSize' = bufferSize'
                 /\ bufferSize' <= HintCeiling]_vars

\* a query that succeeded with more than 0x20000 bytes and left the hint
\* as it was
C22_Witness ==
    /\ Done /\ IsGPI /\ status = "STATUS_SUCCESS" /\ ret = 1
    /\ bufferSize > HintCeiling /\ initialBufferSize <= HintCeiling

\* C23: in a call of psutil_get_process_data the bitness case is decided
\* once and does not change during the call; the parameters structure read
\* has the layout of that case, the address of the final copy is the one
\* the switch took from that structure for the requested kind, held in the
\* address variable the read of the final copy takes, and the final copy
\* uses NtWow64ReadVirtualMemory64 exactly when the parameters structure
\* was read with it.
C23_OneBitnessCase ==
    /\ [](procParameters # NoParams =>
            /\ bitness # "none"
            /\ procParameters.layout = Layout(bitness)
            /\ procParameters.read = ParamsRead(bitness))
    /\ [](copyVia # NoCopy =>
            /\ procParameters # NoParams
            /\ copyVia.read = "NtWow64ReadVirtualMemory64"
                  <=> procParameters.read = "NtWow64ReadVirtualMemory64"
            /\ copyVia.from # NoAddress
            /\ copyVia.from.layout = procParameters.layout
            /\ copyVia.from.field = Field(kind))
    /\ [][(bitness # "none" /\ pc # "done") => bitness' = bitness]_vars

\* the working directory of a 64-bit target read by a 32-bit inspector
C23_Witness ==
    /\ Done /\ op = "get_cwd" /\ ret = 0 /\ bitness = "Narrower"
    /\ copyVia.read = "NtWow64ReadVirtualMemory64"
    /\ copyVia.from = [layout |-> "RTL_USER_PROCESS_PARAMETERS64",
                       field |-> "CurrentDirectoryPath"]

C25_TerminatorInBuffer ==
    (Done /\ UsesGPD /\ ret = 0) =>
        /\ pdata = "buffer" /\ buffer = "alloc"
        /\ bufsz = psize + 2 /\ copyLen = psize
        /\ kind # "KIND_ENVIRON" => BytesScanned(psize) <= bufsz

\* C26: on every exit path of psutil_get_cmdline_data and
\* psutil_get_proc_info CloseHandle is given only a handle that
\* psutil_handle_from_pid returned in this call and free only a buffer
\* allocated in this call; neither is ever given a value the call did not
\* obtain.
C26_ReleasesOnlyOwn ==
    (IsGCD \/ IsGPI) =>
        /\ ~stray
        /\ nClose > 0 => (nOpen > 0 /\ hstate = "closed")
        /\ nClose <= 1

====
